---- MODULE Spec2Model ----
(***************************************************************************)
(* Model of evaluate_function_calls_metrics (src/tools.py).                *)
(*                                                                         *)
(* One evaluation is a run of the state machine: Init draws the three      *)
(* arguments (predictions, references, number) from bounded sets and the   *)
(* actions follow the numbered steps of the function body.  Python values  *)
(* are tagged with their type, so that the isinstance checks, the key      *)
(* lookups and json.loads are decided by the value and not assumed.        *)
(***************************************************************************)
EXTENDS Integers, Sequences, FiniteSets, TLC

VARIABLES predictions, references, number, pc, i, tool_recognition_rate,
          reference_function_names, matched_calls, result, error,
          calls, previous

vars == <<predictions, references, number, pc, i, tool_recognition_rate,
          reference_function_names, matched_calls, result, error,
          calls, previous>>

----------------------------------------------------------------------------
(* Bounds of the model. *)

MaxPreds == 3
MaxRefs == 2
MaxNumber == 2
MaxShapePreds == 2
MaxShapeRefs == 1
MaxTwicePreds == 2
MaxTwiceRefs == 1

----------------------------------------------------------------------------
(* Python values. *)

\* A value of item["function"]: a dict with some of the keys name and
\* arguments, or a value of another type (isDict = FALSE).
FunctionObj(isDict, keys, name, argType, argText) ==
    [isDict |-> isDict, keys |-> keys, name |-> name,
     argType |-> argType, argText |-> argText]

\* An element of predictions or references: a dict with some of the keys id,
\* type and function, or a value of another type (isDict = FALSE).
Item(isDict, keys, id, type, function) ==
    [isDict |-> isDict, keys |-> keys, id |-> id, type |-> type,
     function |-> function]

\* A well-formed call record, as the docstring describes it.
Call(id, name) ==
    Item(TRUE, {"id", "type", "function"}, id, "function",
         FunctionObj(TRUE, {"name", "arguments"}, name, "str", "{}"))

\* Texts json.loads accepts, among the texts the model uses.
JsonTexts == {"{}", "{\"k\": 1}", "[]", "1"}

\* json.loads(x): a str, bytes or bytearray is parsed, any other type is a
\* TypeError.
JsonLoads(argType, argText) ==
    IF argType \notin {"str", "bytes", "bytearray"} THEN "TypeError"
    ELSE IF argText \in JsonTexts THEN "ok"
    ELSE "JSONDecodeError"

NoFunction == FunctionObj(FALSE, {}, "", "NoneType", "")

\* The records the inputs are drawn from.
ItemA == Call("1", "A")
ItemLowerA == Call("3", "a")
ItemB == Call("4", "B")
ItemC == Call("5", "C")
ItemBadJson ==
    Item(TRUE, {"id", "type", "function"}, "6", "function",
         FunctionObj(TRUE, {"name", "arguments"}, "A", "str", "invalid_json"))
ItemNotDict == Item(FALSE, {}, "", "", NoFunction)
ItemNoId == Item(TRUE, {"type", "function"}, "", "function",
                 FunctionObj(TRUE, {"name", "arguments"}, "A", "str", "{}"))
ItemNoFunction == Item(TRUE, {"id", "type"}, "8", "function", NoFunction)
ItemOnlyId == Item(TRUE, {"id"}, "9", "", NoFunction)
ItemBadType ==
    Item(TRUE, {"id", "type", "function"}, "10", "tool",
         FunctionObj(TRUE, {"name", "arguments"}, "A", "str", "{}"))
ItemFunctionNotDict ==
    Item(TRUE, {"id", "type", "function"}, "11", "function",
         FunctionObj(FALSE, {}, "", "str", ""))
ItemNoName ==
    Item(TRUE, {"id", "type", "function"}, "12", "function",
         FunctionObj(TRUE, {"arguments"}, "", "str", "{}"))
ItemNoArguments ==
    Item(TRUE, {"id", "type", "function"}, "13", "function",
         FunctionObj(TRUE, {"name"}, "A", "NoneType", ""))
ItemNoneArguments ==
    Item(TRUE, {"id", "type", "function"}, "14", "function",
         FunctionObj(TRUE, {"name", "arguments"}, "A", "NoneType", ""))
ItemBytesArguments ==
    Item(TRUE, {"id", "type", "function"}, "15", "function",
         FunctionObj(TRUE, {"name", "arguments"}, "A", "bytes", "{}"))

ValidItems == {ItemA, ItemLowerA, ItemB, ItemC}
MalformedItems == {ItemBadJson}
Items == ValidItems \cup MalformedItems

ShapeItems ==
    {ItemA, ItemB, ItemBadJson, ItemNotDict, ItemNoId, ItemNoFunction, ItemOnlyId, ItemBadType, ItemFunctionNotDict, ItemNoName,
     ItemNoArguments, ItemNoneArguments, ItemBytesArguments}

\* Every record shape the checks can tell apart: any value that is not a
\* dict, or a dict with any of the three keys, either type value, and as
\* function a non-dict or a dict with any of the two keys and any arguments.
ArgValues ==
    {<<"str", "{}">>, <<"str", "invalid_json">>, <<"NoneType", "">>,
     <<"int", "1">>, <<"bytes", "{}">>}
FunctionObjs ==
    {FunctionObj(FALSE, {}, "", "str", "")}
        \cup {FunctionObj(TRUE, x[1], IF "name" \in x[1] THEN "A" ELSE "",
                          x[2][1], x[2][2]) :
                 x \in {y \in (SUBSET {"name", "arguments"}) \X ArgValues :
                           "arguments" \notin y[1] => y[2] = <<"NoneType", "">>}}
AllRecords ==
    {ItemNotDict}
        \cup {Item(TRUE, x[1], IF "id" \in x[1] THEN "1" ELSE "", x[2], x[3]) :
                 x \in {y \in (SUBSET {"id", "type", "function"})
                                  \X {"function", "tool", ""}
                                  \X (FunctionObjs \cup {NoFunction}) :
                           /\ ("type" \in y[1]) <=> (y[2] # "")
                           /\ ("function" \in y[1]) <=> (y[3] # NoFunction)}}

SeqsUpTo(S, n) == UNION {[1..k -> S] : k \in 0..n}

\* A value passed as predictions or references.
PyList(items) == [type |-> "list", items |-> items]
NotAList == {[type |-> "str", items |-> <<>>],
             [type |-> "NoneType", items |-> <<>>]}

\* A value passed as number; bool is a subclass of int (True == 1).
PyInt(n) == [type |-> "int", val |-> n]
NotAnInt == [type |-> "str", val |-> 0]
Numbers ==
    {PyInt(n) : n \in -1 .. MaxNumber}
        \cup {[type |-> "bool", val |-> 1], NotAnInt}
ShapeNumbers == {PyInt(-1), PyInt(1)}

----------------------------------------------------------------------------
(* Floats: a finite quotient is kept as a fraction in lowest terms, so that *)
(* equal quotients are equal values; float('inf') is 1/0.                   *)

RECURSIVE GCD(_, _)
GCD(a, b) == IF b = 0 THEN a ELSE GCD(b, a % b)

Float(n, d) == [num |-> n, den |-> d]
Inf == Float(1, 0)
Zero == Float(0, 1)

\* a / b for integers a >= 0, b > 0.
TrueDiv(a, b) == LET g == GCD(a, b) IN Float(a \div g, b \div g)

----------------------------------------------------------------------------
(* Errors and results. *)

NoError == [kind |-> "none", param |-> "", index |-> -1, what |-> ""]
TypeError(param) ==
    [kind |-> "TypeError", param |-> param, index |-> -1, what |-> "type"]
ValueError(param, index, what) ==
    [kind |-> "ValueError", param |-> param, index |-> index, what |-> what]

Metrics(fcm, trr, cws, hr) ==
    [fcm |-> fcm, tool_recognition_rate |-> trr,
     correct_workflow_selection |-> cws, hallucination_rate |-> hr]
NoResult == Metrics(<<>>, FALSE, FALSE, Zero)

\* What a call ends with: a returned result or a raised error.
Outcome(status, r, e) == [status |-> status, result |-> r, error |-> e]
NoOutcome == Outcome("none", NoResult, NoError)

----------------------------------------------------------------------------
(* Step 6: validate_function_call_format.  The value is the violation the  *)
(* function raises for the item, "ok" when it returns normally.             *)

\* Variant that reports the last missing field, the loop not stopping at the
\* first.
LastMissing(fields, keys) ==
    LET missing == {k \in 1..Len(fields) : fields[k] \notin keys}
    IN IF missing = {} THEN ""
       ELSE fields[CHOOSE k \in missing : \A m \in missing : k >= m]

\* The first of the required fields, in list order, that the dict lacks.
FirstMissing(fields, keys) ==
    LET missing == {k \in 1..Len(fields) : fields[k] \notin keys}
    IN IF missing = {} THEN ""
       ELSE fields[CHOOSE k \in missing : \A m \in missing : k <= m]

validate_function_call_format(item) ==
    IF ~item.isDict THEN "not a dict"
    ELSE IF FirstMissing(<<"id", "type", "function">>, item.keys) # ""
    THEN "missing " \o FirstMissing(<<"id", "type", "function">>, item.keys)
    ELSE IF item.type # "function" THEN "type is not function"
    ELSE IF ~item.function.isDict THEN "function is not a dict"
    ELSE IF FirstMissing(<<"name", "arguments">>, item.function.keys) # ""
    THEN "function missing "
            \o FirstMissing(<<"name", "arguments">>, item.function.keys)
    ELSE IF JsonLoads(item.function.argType, item.function.argText) # "ok"
    THEN "arguments is not JSON"
    ELSE "ok"

----------------------------------------------------------------------------
(* Steps 8 to 10 as functions of the validated lists. *)

\* Step 8: the set of names of the references.
ReferenceNames(refs) == {refs[k].function.name : k \in 1..Len(refs)}

\* Variant of step 9 that compares names without regard to case.
FoldCase(name) == IF name = "a" THEN "A" ELSE name
RECURSIVE MatchedCallsIgnoreCase(_, _)
MatchedCallsIgnoreCase(preds, names) ==
    IF preds = <<>> THEN <<>>
    ELSE IF FoldCase(Head(preds).function.name) \in {FoldCase(n) : n \in names}
    THEN <<Head(preds)>> \o MatchedCallsIgnoreCase(Tail(preds), names)
    ELSE MatchedCallsIgnoreCase(Tail(preds), names)

\* Variant of step 9 in which a reference name matches one prediction only.
RECURSIVE MatchedCallsOnce(_, _)
MatchedCallsOnce(preds, names) ==
    IF preds = <<>> THEN <<>>
    ELSE IF Head(preds).function.name \in names
    THEN <<Head(preds)>>
            \o MatchedCallsOnce(Tail(preds),
                                names \ {Head(preds).function.name})
    ELSE MatchedCallsOnce(Tail(preds), names)

\* Step 9: the predictions whose name is in the set, in order.
RECURSIVE MatchedCalls(_, _)
MatchedCalls(preds, names) ==
    IF preds = <<>> THEN <<>>
    ELSE IF Head(preds).function.name \in names
    THEN <<Head(preds)>> \o MatchedCalls(Tail(preds), names)
    ELSE MatchedCalls(Tail(preds), names)

\* Variant of step 10 that asks for exactly number matches.
WorkflowSelectedExactly(intersection_count, n) == intersection_count = n

\* Step 10: intersection_count >= number.
WorkflowSelected(intersection_count, n) == intersection_count >= n

\* Variant of step 10 that normalises by the number of predictions.
HallucinationRateByPredictions(predictions_count, intersection_count, references_count) ==
    LET predictions_only_count == predictions_count - intersection_count
    IN IF references_count = 0
       THEN IF predictions_only_count > 0 THEN Inf ELSE Zero
       ELSE TrueDiv(predictions_only_count, predictions_count)

\* Variant of step 10 that counts the references without a match instead of
\* the predictions without a match.
HallucinationRateReferencesOnly(predictions_count, intersection_count, references_count) ==
    LET references_only_count == references_count - intersection_count
    IN IF references_count = 0
       THEN IF references_only_count > 0 THEN Inf ELSE Zero
       ELSE TrueDiv(references_only_count, references_count)

\* Step 10: the hallucination rate of the main path.
HallucinationRate(predictions_count, intersection_count, references_count) ==
    LET predictions_only_count == predictions_count - intersection_count
    IN IF references_count = 0
       THEN IF predictions_only_count > 0 THEN Inf ELSE Zero
       ELSE TrueDiv(predictions_only_count, references_count)

\* Variant of step 3 without the sign test, as before it was added.
NeverNegative(n) == FALSE

\* Step 3: the sign test on number.
IsNegative(n) == n < 0

\* Variant of step 4 with >= for >.
ToolRecognitionRateAlways(preds) == Len(preds) >= 0

\* Step 4: len(predictions) > 0.
ToolRecognitionRate(preds) == Len(preds) > 0

\* Variant of step 5 that returns early only for empty predictions.
IsShortCircuitPredictionsOnly(preds, refs) == preds = <<>>

\* Variant of step 5 that returns early only when both lists are empty.
IsShortCircuitBoth(preds, refs) == preds = <<>> /\ refs = <<>>

\* Step 5: not predictions or not references.
IsShortCircuit(preds, refs) == preds = <<>> \/ refs = <<>>

\* Variant of step 5 that reports no hallucination for any empty input.
EmptyHallucinationRateZero(preds) == Zero

\* Step 5: the hallucination rate of the empty-list path.
EmptyHallucinationRate(preds) == IF Len(preds) = 0 THEN Zero ELSE Inf

\* Variant of step 5 that compares the empty intersection with number.
EmptyWorkflowSelectionByCount(n) == 0 >= n

\* Step 5: correct_workflow_selection of the empty-list path.
EmptyWorkflowSelection(n) == FALSE

\* correct_workflow_selection as a function of the arguments, for lists on
\* which the evaluation returns.
CorrectWorkflowSelection(preds, refs, n) ==
    IF IsShortCircuit(preds, refs) THEN EmptyWorkflowSelection(n)
    ELSE WorkflowSelected(Len(MatchedCalls(preds, ReferenceNames(refs))), n)

----------------------------------------------------------------------------
(* The state machine. *)

InitWith(S, maxPreds, maxRefs, nums) ==
    /\ predictions \in {PyList(s) : s \in SeqsUpTo(S, maxPreds)} \cup NotAList
    /\ references \in {PyList(s) : s \in SeqsUpTo(S, maxRefs)} \cup NotAList
    /\ number \in nums
    /\ pc = "check_params"
    /\ i = 0
    /\ tool_recognition_rate = FALSE
    /\ reference_function_names = {}
    /\ matched_calls = <<>>
    /\ result = NoResult
    /\ error = NoError
    /\ calls = 1
    /\ previous = NoOutcome

Init == InitWith(Items, MaxPreds, MaxRefs, Numbers)

Raise(e) ==
    /\ pc' = "raised"
    /\ error' = e
    /\ UNCHANGED <<calls, previous, predictions, references, number, i, tool_recognition_rate,
                   reference_function_names, matched_calls, result>>

Return(r) ==
    /\ pc' = "returned"
    /\ result' = r
    /\ UNCHANGED <<calls, previous, predictions, references, number, i, tool_recognition_rate,
                   reference_function_names, matched_calls, error>>

\* Variant of steps 1 to 4 that tests references before predictions.
CheckParamsReferencesFirst ==
    /\ pc = "check_params"
    /\ IF references.type # "list" THEN Raise(TypeError("references"))
       ELSE IF predictions.type # "list" THEN Raise(TypeError("predictions"))
       ELSE IF number.type \notin {"int", "bool"}
       THEN Raise(TypeError("number"))
       ELSE IF IsNegative(number.val)
       THEN Raise(ValueError("number", -1, "negative"))
       ELSE /\ tool_recognition_rate' = ToolRecognitionRate(predictions.items)
            /\ pc' = "empty_check"
            /\ UNCHANGED <<calls, previous, predictions, references, number,
                           i, reference_function_names, matched_calls,
                           result, error>>

\* Steps 1 to 4: the type checks, the sign check, tool_recognition_rate.
CheckParams ==
    /\ pc = "check_params"
    /\ IF predictions.type # "list" THEN Raise(TypeError("predictions"))
       ELSE IF references.type # "list" THEN Raise(TypeError("references"))
       ELSE IF number.type \notin {"int", "bool"}
       THEN Raise(TypeError("number"))
       ELSE IF IsNegative(number.val)
       THEN Raise(ValueError("number", -1, "negative"))
       ELSE /\ tool_recognition_rate' = ToolRecognitionRate(predictions.items)
            /\ pc' = "empty_check"
            /\ UNCHANGED <<calls, previous, predictions, references, number, i,
                           reference_function_names, matched_calls, result,
                           error>>

\* Variant of step 5 that goes on to the loop over references.
EmptyCheckReferencesFirst ==
    /\ pc = "empty_check"
    /\ IF IsShortCircuit(predictions.items, references.items)
       THEN Return(Metrics(<<>>, tool_recognition_rate,
                           EmptyWorkflowSelection(number.val),
                           EmptyHallucinationRate(predictions.items)))
       ELSE /\ pc' = "validate_references"
            /\ i' = 0
            /\ UNCHANGED <<calls, previous, predictions, references, number,
                           tool_recognition_rate, reference_function_names,
                           matched_calls, result, error>>

\* Step 5: an empty list on either side returns at once.
EmptyCheck ==
    /\ pc = "empty_check"
    /\ IF IsShortCircuit(predictions.items, references.items)
       THEN Return(Metrics(<<>>, tool_recognition_rate,
                           EmptyWorkflowSelection(number.val),
                           EmptyHallucinationRate(predictions.items)))
       ELSE /\ pc' = "validate_predictions"
            /\ i' = 0
            /\ UNCHANGED <<calls, previous, predictions, references, number,
                           tool_recognition_rate, reference_function_names,
                           matched_calls, result, error>>

\* Step 7, first loop: one iteration over predictions.
ValidatePrediction ==
    /\ pc = "validate_predictions"
    /\ IF i < Len(predictions.items)
       THEN LET v == validate_function_call_format(predictions.items[i + 1])
            IN IF v # "ok" THEN Raise(ValueError("predictions", i, v))
               ELSE /\ i' = i + 1
                    /\ UNCHANGED <<calls, previous, predictions, references, number, pc,
                                   tool_recognition_rate,
                                   reference_function_names, matched_calls,
                                   result, error>>
       ELSE /\ pc' = "validate_references"
            /\ i' = 0
            /\ UNCHANGED <<calls, previous, predictions, references, number,
                           tool_recognition_rate, reference_function_names,
                           matched_calls, result, error>>

\* Variant of step 7 without the second loop.
ValidateReferenceSkipped ==
    /\ pc = "validate_references"
    /\ pc' = "match"
    /\ i' = 0
    /\ UNCHANGED <<calls, previous, predictions, references, number, tool_recognition_rate,
                   reference_function_names, matched_calls, result, error>>

\* Step 7, second loop: one iteration over references.
ValidateReference ==
    /\ pc = "validate_references"
    /\ IF i < Len(references.items)
       THEN LET v == validate_function_call_format(references.items[i + 1])
            IN IF v # "ok" THEN Raise(ValueError("references", i, v))
               ELSE /\ i' = i + 1
                    /\ UNCHANGED <<calls, previous, predictions, references, number, pc,
                                   tool_recognition_rate,
                                   reference_function_names, matched_calls,
                                   result, error>>
       ELSE /\ pc' = "match"
            /\ i' = 0
            /\ UNCHANGED <<calls, previous, predictions, references, number,
                           tool_recognition_rate, reference_function_names,
                           matched_calls, result, error>>

\* Variant of step 9 whose loop pops each prediction off the caller's list.
MatchConsuming ==
    /\ pc = "match"
    /\ reference_function_names' = ReferenceNames(references.items)
    /\ matched_calls' =
           MatchedCalls(predictions.items, reference_function_names')
    /\ predictions' = PyList(<<>>)
    /\ pc' = "metrics"
    /\ UNCHANGED <<calls, previous, references, number, i,
                   tool_recognition_rate, result, error>>

\* Variant of step 9 that filters the caller's list in place.
MatchFilteringInPlace ==
    /\ pc = "match"
    /\ reference_function_names' = ReferenceNames(references.items)
    /\ matched_calls' =
           MatchedCalls(predictions.items, reference_function_names')
    /\ predictions' = PyList(matched_calls')
    /\ pc' = "metrics"
    /\ UNCHANGED <<calls, previous, references, number, i,
                   tool_recognition_rate, result, error>>

\* Steps 8 and 9: the name set, then the matching loop.
Match ==
    /\ pc = "match"
    /\ reference_function_names' = ReferenceNames(references.items)
    /\ matched_calls' =
           MatchedCalls(predictions.items, reference_function_names')
    /\ pc' = "metrics"
    /\ UNCHANGED <<calls, previous, predictions, references, number, i, tool_recognition_rate,
                   result, error>>

\* Step 10 and the return.
ComputeMetrics ==
    /\ pc = "metrics"
    /\ Return(Metrics(matched_calls, tool_recognition_rate,
                      WorkflowSelected(Len(matched_calls), number.val),
                      HallucinationRate(Len(predictions.items),
                                        Len(matched_calls),
                                        Len(references.items))))

Next ==
    \/ CheckParams
    \/ EmptyCheck
    \/ ValidatePrediction
    \/ ValidateReference
    \/ Match
    \/ ComputeMetrics

Spec == Init /\ [][Next]_vars

\* The caller evaluates the same argument objects a second time, as the demo
\* does: the call starts with fresh locals, the arguments are the objects the
\* first call left behind.
CallAgain ==
    /\ pc \in {"returned", "raised"}
    /\ calls = 1
    /\ calls' = 2
    /\ previous' = Outcome(pc, result, error)
    /\ pc' = "check_params"
    /\ i' = 0
    /\ tool_recognition_rate' = FALSE
    /\ reference_function_names' = {}
    /\ matched_calls' = <<>>
    /\ result' = NoResult
    /\ error' = NoError
    /\ UNCHANGED <<predictions, references, number>>

NextTwice ==
    \/ CheckParams
    \/ EmptyCheck
    \/ ValidatePrediction
    \/ ValidateReference
    \/ Match
    \/ ComputeMetrics
    \/ CallAgain

InitTwice == InitWith(Items, MaxTwicePreds, MaxTwiceRefs, Numbers)
SpecTwice == InitTwice /\ [][NextTwice]_vars

\* The same machine over one record of any shape on one side and a valid
\* record on the other, with the default number.
InitRecord ==
    /\ \E r \in AllRecords :
          \/ /\ predictions = PyList(<<r>>)
             /\ references = PyList(<<ItemA>>)
          \/ /\ predictions = PyList(<<ItemA>>)
             /\ references = PyList(<<r>>)
    /\ number = PyInt(1)
    /\ pc = "check_params"
    /\ i = 0
    /\ tool_recognition_rate = FALSE
    /\ reference_function_names = {}
    /\ matched_calls = <<>>
    /\ result = NoResult
    /\ error = NoError
    /\ calls = 1
    /\ previous = NoOutcome
SpecRecord == InitRecord /\ [][Next]_vars

\* The same machine over the records of every malformed shape.
InitShapes ==
    InitWith(ShapeItems, MaxShapePreds, MaxShapeRefs, ShapeNumbers \cup {NotAnInt})
SpecShapes == InitShapes /\ [][Next]_vars

TypeOK ==
    /\ pc \in {"check_params", "empty_check", "validate_predictions",
               "validate_references", "match", "metrics", "returned",
               "raised"}
    /\ i \in 0 .. Len(predictions.items) + Len(references.items)
    /\ (pc = "raised") <=> (error # NoError)
    /\ (pc # "returned") => (result = NoResult)

----------------------------------------------------------------------------
(* Vocabulary of the properties. *)

P == Len(predictions.items)
R == Len(references.items)
Returned == pc = "returned"
Raised == pc = "raised"
BothNonEmpty == P > 0 /\ R > 0

\* The six checks of the record shape, each stated on the record.
WellFormed(item) ==
    /\ item.isDict
    /\ {"id", "type", "function"} \subseteq item.keys
    /\ item.type = "function"
    /\ item.function.isDict
    /\ {"name", "arguments"} \subseteq item.function.keys
    /\ item.function.argType \in {"str", "bytes", "bytearray"}
    /\ item.function.argText \in JsonTexts

AllWellFormed(items) == \A k \in 1..Len(items) : WellFormed(items[k])

\* The parameter checks pass: both lists are lists, number is a non-negative
\* integer.
ParamsOK ==
    /\ predictions.type = "list"
    /\ references.type = "list"
    /\ number.type \in {"int", "bool"}
    /\ number.val >= 0

\* The indices of the predictions whose name equals the name of a reference.
MatchingIndices ==
    {k \in 1..P : \E j \in 1..R :
        references.items[j].function.name = predictions.items[k].function.name}

M == Cardinality(MatchingIndices)

----------------------------------------------------------------------------
(* C1: for valid, non-empty predictions and references, fcm is exactly the *)
(* subsequence of predictions, in their original order, made of every      *)
(* prediction whose name equals (exactly, case-sensitively) the name of    *)
(* some reference: there is a strictly increasing map from the positions   *)
(* of fcm onto the matching indices that carries each element of fcm to    *)
(* the prediction at that index.                                           *)
C1_MatchedIsNameSubsequence ==
    (Returned /\ BothNonEmpty) =>
        /\ AllWellFormed(predictions.items)
        /\ AllWellFormed(references.items)
        /\ Len(result.fcm) = M
        /\ \E f \in [1..Len(result.fcm) -> 1..P] :
              /\ \A a, b \in 1..Len(result.fcm) : a < b => f[a] < f[b]
              /\ {f[a] : a \in 1..Len(result.fcm)} = MatchingIndices
              /\ \A a \in 1..Len(result.fcm) :
                    result.fcm[a] = predictions.items[f[a]]

\* A name that differs from a reference name only by case is left out, while
\* the exact name before and after it is kept.
C1_Witness ==
    /\ Returned
    /\ predictions.items = <<ItemA, ItemLowerA, ItemA>>
    /\ references.items = <<ItemB, ItemA>>
    /\ result.fcm = <<ItemA, ItemA>>

(* C2: matching keeps the multiplicity of predictions and ignores the      *)
(* multiplicity of references: every prediction whose name occurs in       *)
(* references is in fcm, as many times as it occurs in predictions, and    *)
(* adding to references (at either end) a record whose name already occurs *)
(* there gives the same fcm.                                               *)
C2_MultiplicityOnPredictionSideOnly ==
    (Returned /\ BothNonEmpty) =>
        /\ \A n \in ReferenceNames(references.items) :
              Cardinality({k \in 1..Len(result.fcm) :
                              result.fcm[k].function.name = n})
                  = Cardinality({k \in 1..P :
                                    predictions.items[k].function.name = n})
        /\ \A r \in ValidItems :
              r.function.name \in ReferenceNames(references.items) =>
                 /\ MatchedCalls(predictions.items,
                        ReferenceNames(Append(references.items, r)))
                      = result.fcm
                 /\ MatchedCalls(predictions.items,
                        ReferenceNames(<<r>> \o references.items))
                      = result.fcm

\* predictions [A, A, B] against references [A, C] gives [A, A].
C2_Witness ==
    /\ Returned
    /\ predictions.items = <<ItemA, ItemA, ItemB>>
    /\ references.items = <<ItemA, ItemC>>
    /\ result.fcm = <<ItemA, ItemA>>

(* C3: with both lists non-empty and valid, hallucination_rate is the      *)
(* quotient (P - M) / R, R being the number of reference records with      *)
(* duplicates counted, and it is greater than 1 whenever P - M > R.        *)
C3_HallucinationRateIsQuotient ==
    (Returned /\ BothNonEmpty) =>
        /\ result.hallucination_rate.den > 0
        /\ result.hallucination_rate.num * R
              = (P - Len(result.fcm)) * result.hallucination_rate.den
        /\ Len(result.fcm) = M
        /\ (P - M > R) =>
              result.hallucination_rate.num > result.hallucination_rate.den

\* Three unmatched predictions against a reference list holding the same name
\* twice: 3 / 2, not 3 / 1.
C3_Witness ==
    /\ Returned
    /\ predictions.items = <<ItemB, ItemC, ItemB>>
    /\ references.items = <<ItemA, ItemA>>
    /\ result.hallucination_rate = Float(3, 2)

(* C4: when predictions or references is empty and the parameter checks    *)
(* pass, the evaluation does not raise and what it returns is fcm = [],    *)
(* tool_recognition_rate = (P > 0), correct_workflow_selection = false and *)
(* hallucination_rate = 0.0 for empty predictions, +infinity otherwise.    *)
C4_EmptyInputResult ==
    (ParamsOK /\ (P = 0 \/ R = 0)) =>
        /\ ~Raised
        /\ Returned =>
              result = Metrics(<<>>, P > 0, FALSE,
                               IF P = 0 THEN Zero ELSE Inf)

C4_Witness ==
    /\ Returned
    /\ predictions.items = <<ItemA>>
    /\ references.items = <<>>
    /\ result = Metrics(<<>>, TRUE, FALSE, Inf)

(* C5: correct_workflow_selection is true exactly when both lists are      *)
(* non-empty and the number of matching predictions is at least number;    *)
(* with an empty list it is false even for number = 0.                     *)
C5_WorkflowSelectionIff ==
    Returned =>
        (result.correct_workflow_selection
            <=> (BothNonEmpty /\ M >= number.val))

C5_Witness ==
    /\ Returned
    /\ number = PyInt(0)
    /\ predictions.items = <<>>
    /\ references.items = <<ItemA>>
    /\ ~result.correct_workflow_selection

(* C6: whenever the evaluation returns, tool_recognition_rate is           *)
(* (len(predictions) > 0), whatever references, number and the matches.    *)
C6_ToolRecognitionRate ==
    Returned => (result.tool_recognition_rate <=> (P > 0))

C6_Witness ==
    /\ Returned
    /\ predictions.items = <<>>
    /\ references.items = <<ItemA>>
    /\ number = PyInt(0)
    /\ ~result.tool_recognition_rate

(* C7: with an empty list on either side the records are never validated   *)
(* nor matched: the run goes from the parameter checks to the early        *)
(* return, raises nothing even though the other list holds malformed       *)
(* records, and returns the result of the empty-list path.                 *)
C7_EmptyInputSkipsValidation ==
    (ParamsOK /\ (P = 0 \/ R = 0)) =>
        /\ pc \in {"check_params", "empty_check", "returned"}
        /\ error = NoError
        /\ matched_calls = <<>>
        /\ ~Returned => ENABLED Next
        /\ Returned =>
              /\ result.fcm = <<>>
              /\ result.hallucination_rate = IF P = 0 THEN Zero ELSE Inf

C7_Witness ==
    /\ Returned
    /\ predictions.items = <<ItemNotDict, ItemBadJson>>
    /\ references.items = <<>>
    /\ result.hallucination_rate = Inf

C9_NegativeNumberRaises ==
    (/\ predictions.type = "list"
     /\ references.type = "list"
     /\ number.type = "int"
     /\ number.val < 0)
    =>
        /\ pc \in {"check_params", "raised"}
        /\ result = NoResult
        /\ ~Raised => ENABLED Next
        /\ Raised => error = ValueError("number", -1, "negative")

C9_Witness ==
    /\ Raised
    /\ number = PyInt(-1)
    /\ predictions.items = <<>>
    /\ predictions.type = "list"
    /\ references.items = <<ItemBadJson>>
    /\ error.kind = "ValueError"

(* C10: for the same predictions and references, if                        *)
(* correct_workflow_selection is true at number = t then it is true at     *)
(* every t' with 0 <= t' <= t.                                             *)
C10_ThresholdMonotone ==
    Returned =>
        /\ result.correct_workflow_selection
              = CorrectWorkflowSelection(predictions.items, references.items,
                                         number.val)
        /\ result.correct_workflow_selection =>
              \A t \in 0 .. number.val :
                 CorrectWorkflowSelection(predictions.items,
                                          references.items, t)

C10_Witness ==
    /\ Returned
    /\ number = PyInt(2)
    /\ Len(result.fcm) = 3
    /\ result.correct_workflow_selection

(* C11: evaluating the same predictions, references and number a second    *)
(* time ends as the first evaluation did: the same status, and either the  *)
(* same four metrics or an error of the same kind.                         *)
C11_SecondCallSameOutcome ==
    (calls = 2 /\ (Returned \/ Raised)) =>
        /\ previous.status = pc
        /\ previous.result = result
        /\ previous.error.kind = error.kind

C11_Witness ==
    /\ calls = 2
    /\ Returned
    /\ predictions.items = <<ItemA, ItemB>>
    /\ references.items = <<ItemA>>
    /\ number = PyInt(1)
    /\ result = Metrics(<<ItemA>>, TRUE, TRUE, Float(1, 1))
    /\ previous.status = "returned"

(* C12: no step of the evaluation changes predictions or references,       *)
(* whether the call goes on to return or to raise, and each element of the *)
(* returned fcm is one of the records of predictions as they were passed.  *)
C12_InputsNeverMutated ==
    [][/\ predictions' = predictions
       /\ references' = references
       /\ pc' = "returned" =>
             \A k \in 1..Len(result'.fcm) :
                \E j \in 1..Len(predictions.items) :
                   result'.fcm[k] = predictions.items[j]]_vars

\* Two records of the same name: the one returned is the one that was passed.
C12_Witness ==
    /\ Returned
    /\ predictions.items = <<ItemBytesArguments, ItemB>>
    /\ references.items = <<ItemA>>
    /\ result.fcm = <<ItemBytesArguments>>

\* The index, counted from 0, of the first record that fails a shape check;
\* -1 when there is none.
FirstMalformed(items) ==
    LET bad == {k \in 1..Len(items) : ~WellFormed(items[k])}
    IN IF bad = {} THEN -1
       ELSE (CHOOSE k \in bad : \A m \in bad : k <= m) - 1

(* C13: with both lists non-empty, the references are looked at only once  *)
(* every prediction has passed; each loop has passed the records before    *)
(* its index; and the error raised names predictions and the smallest      *)
(* malformed prediction index if there is one, whatever references holds,  *)
(* otherwise references and the smallest malformed reference index.        *)
C13_PredictionsValidatedFirst ==
    (ParamsOK /\ BothNonEmpty) =>
        /\ pc = "validate_predictions" =>
              \A k \in 1..i : WellFormed(predictions.items[k])
        /\ pc = "validate_references" =>
              /\ AllWellFormed(predictions.items)
              /\ \A k \in 1..i : WellFormed(references.items[k])
        /\ Raised =>
              IF ~AllWellFormed(predictions.items)
              THEN /\ error.param = "predictions"
                   /\ error.index = FirstMalformed(predictions.items)
              ELSE /\ error.param = "references"
                   /\ error.index = FirstMalformed(references.items)

\* Malformed records at indices 1 and 2 of predictions and at index 0 of
\* references: the error is for predictions[1].
C13_Witness ==
    /\ Raised
    /\ predictions.items = <<ItemA, ItemBadJson, ItemBadJson>>
    /\ references.items = <<ItemBadJson, ItemA>>
    /\ error.param = "predictions"
    /\ error.index = 1

\* isinstance(number, int): a bool is an int.
IsInt(n) == n.type \in {"int", "bool"}

(* C14: the parameter checks come first and in a fixed order: predictions  *)
(* not a list is a TypeError about predictions; else references not a list *)
(* is a TypeError about references; else number not an int is a TypeError  *)
(* about number; else a negative number is a ValueError about number.      *)
(* Nothing after the checks is reached unless all four pass, also when the *)
(* lists are empty.                                                        *)
C14_ParameterChecksFirst ==
    /\ pc \notin {"check_params", "raised"} => ParamsOK
    /\ ~ParamsOK =>
          /\ pc \in {"check_params", "raised"}
          /\ ~Raised => ENABLED Next
          /\ result = NoResult
    /\ (Raised /\ predictions.type # "list") =>
          error = TypeError("predictions")
    /\ (Raised /\ predictions.type = "list" /\ references.type # "list") =>
          error = TypeError("references")
    /\ (/\ Raised
        /\ predictions.type = "list"
        /\ references.type = "list"
        /\ ~IsInt(number)) =>
          error = TypeError("number")
    /\ (/\ Raised
        /\ predictions.type = "list"
        /\ references.type = "list"
        /\ IsInt(number)
        /\ number.val < 0) =>
          /\ error.kind = "ValueError"
          /\ error.param = "number"

\* All three arguments are of the wrong type: the error is for predictions.
C14_Witness ==
    /\ Raised
    /\ predictions.type = "str"
    /\ references.type = "NoneType"
    /\ number = NotAnInt
    /\ error = TypeError("predictions")

\* The record an error about predictions or references is raised for.
Offender ==
    IF error.param = "predictions" THEN predictions.items[error.index + 1]
    ELSE references.items[error.index + 1]

\* The checks a record passes, one after the other.
IsMapping(r) == r.isDict
HasKeys(r) == IsMapping(r) /\ {"id", "type", "function"} \subseteq r.keys
HasKind(r) == HasKeys(r) /\ r.type = "function"
HasCallMapping(r) == HasKind(r) /\ r.function.isDict
HasCallKeys(r) ==
    HasCallMapping(r) /\ {"name", "arguments"} \subseteq r.function.keys

(* C15: the error raised for a record is a ValueError that reports the     *)
(* first check, in the order 1 to 6, that the record fails: not a mapping; *)
(* missing id, then type, then function; type not "function"; function not *)
(* a mapping; function missing name, then arguments; arguments not         *)
(* parsing as JSON, which is also what a None or a number as arguments     *)
(* gives.  A record that passes the six checks raises nothing.             *)
C15_FirstFailingCheckReported ==
    /\ (Returned /\ BothNonEmpty) =>
          /\ AllWellFormed(predictions.items)
          /\ AllWellFormed(references.items)
    /\ (Raised /\ ParamsOK) =>
          /\ error.kind = "ValueError"
          /\ ~WellFormed(Offender)
          /\ (error.what = "not a dict") <=> ~IsMapping(Offender)
          /\ (error.what = "missing id") <=>
                (IsMapping(Offender) /\ "id" \notin Offender.keys)
          /\ (error.what = "missing type") <=>
                (/\ IsMapping(Offender)
                 /\ "id" \in Offender.keys
                 /\ "type" \notin Offender.keys)
          /\ (error.what = "missing function") <=>
                (/\ IsMapping(Offender)
                 /\ {"id", "type"} \subseteq Offender.keys
                 /\ "function" \notin Offender.keys)
          /\ (error.what = "type is not function") <=>
                (HasKeys(Offender) /\ Offender.type # "function")
          /\ (error.what = "function is not a dict") <=>
                (HasKind(Offender) /\ ~Offender.function.isDict)
          /\ (error.what = "function missing name") <=>
                (/\ HasCallMapping(Offender)
                 /\ "name" \notin Offender.function.keys)
          /\ (error.what = "function missing arguments") <=>
                (/\ HasCallMapping(Offender)
                 /\ "name" \in Offender.function.keys
                 /\ "arguments" \notin Offender.function.keys)
          /\ (error.what = "arguments is not JSON") <=>
                (/\ HasCallKeys(Offender)
                 /\ ~(/\ Offender.function.argType
                            \in {"str", "bytes", "bytearray"}
                      /\ Offender.function.argText \in JsonTexts))

\* An empty dict fails checks 2 for all three keys: the error is for id.
C15_Witness ==
    /\ Raised
    /\ predictions.items = <<Item(TRUE, {}, "", "", NoFunction)>>
    /\ error = ValueError("predictions", 0, "missing id")

(* C16: a returned hallucination_rate is +infinity exactly when            *)
(* predictions is non-empty and references is empty, and is then never     *)
(* 0.0; matching and the metrics of the main path are reached only with a  *)
(* non-empty references, so the R == 0 branch there is never taken and     *)
(* every result of the main path is a finite ratio.                        *)
C16_InfiniteOnlyForEmptyReferences ==
    /\ pc \in {"validate_predictions", "validate_references", "match",
               "metrics"} => R > 0
    /\ Returned =>
          /\ (result.hallucination_rate = Inf) <=> (P > 0 /\ R = 0)
          /\ (result.hallucination_rate.den = 0) <=> (P > 0 /\ R = 0)
          /\ (P > 0 /\ R = 0) => result.hallucination_rate # Zero
          /\ BothNonEmpty => result.hallucination_rate.den > 0

C16_Witness ==
    /\ Returned
    /\ predictions.items = <<ItemA, ItemB>>
    /\ references.items = <<>>
    /\ result.hallucination_rate = Inf

(* C17: in every returned result 0 <= M <= P and hallucination_rate >= 0;  *)
(* it is 0 exactly when predictions is empty or references is non-empty    *)
(* and every prediction is matched; a non-empty valid list evaluated       *)
(* against itself gives all its records as fcm and the rate 0.             *)
C17_RateBoundsAndZero ==
    Returned =>
        /\ 0 <= Len(result.fcm)
        /\ Len(result.fcm) <= P
        /\ BothNonEmpty => Len(result.fcm) = M
        /\ result.hallucination_rate.num >= 0
        /\ result.hallucination_rate.den >= 0
        /\ (result.hallucination_rate.num = 0) <=>
              (P = 0 \/ (R > 0 /\ Len(result.fcm) = P))
        /\ (P > 0 /\ predictions.items = references.items) =>
              /\ result.fcm = predictions.items
              /\ result.hallucination_rate = Zero

\* The full-match test: the same two records on both sides.
C17_Witness ==
    /\ Returned
    /\ predictions.items = <<ItemA, ItemB>>
    /\ references.items = <<ItemA, ItemB>>
    /\ result.fcm = <<ItemA, ItemB>>
    /\ result.hallucination_rate = Zero

====
